---- MODULE Spec2Model ----
(***************************************************************************)
(* Model of app/core/retrieval/serialization.py: serialize_chunks and      *)
(* serialize_chunks_with_ids.                                              *)
(*                                                                         *)
(* A Python str is a sequence of one-character strings, so that strip(),   *)
(* slicing, formatting and join are computed character by character.       *)
(* A metadata value is a tagged record (int or str); a metadata mapping is *)
(* a function over the three keys the code looks up, a key the dict does   *)
(* not hold being mapped to ABSENT.  A dict built by the code (citations)  *)
(* is the sequence of its entries in insertion order.                      *)
(***************************************************************************)
EXTENDS Naturals, Sequences, FiniteSets

VARIABLES
    docs,           \* the list of Documents the caller passes (shared by all calls)
    pc,             \* per call: "idle", "loop", "done"
    fn,             \* per call: "none", "serialize_chunks", "serialize_chunks_with_ids"
    idx,            \* per call: number of passages the for loop has processed
    context_parts,  \* per call: the local list context_parts
    citations,      \* per call: the local dict citations
    result          \* per call: the returned value

vars == <<docs, pc, fn, idx, context_parts, citations, result>>

Calls == DOMAIN pc

-----------------------------------------------------------------------------
(* Bounds of the explored inputs.                                          *)

MaxDocs == 2        \* longest passage sequence
MaxLen == 4         \* longest short page_content, every string over Chars
MaxPad == 1         \* longest leading whitespace before a long page_content
MaxOver == 1        \* long contents are SnippetLen-MaxOver .. SnippetLen+MaxOver letters
NumCalls == 2       \* concurrent calls in SpecConc

SnippetLen == 100   \* chunk_content[:100]

-----------------------------------------------------------------------------
(* Python values and strings.                                              *)

IntV(n) == [kind |-> "int", n |-> n, s |-> <<>>]
StrV(s) == [kind |-> "str", n |-> 0, s |-> s]
NoneV == [kind |-> "none", n |-> 0, s |-> <<>>]
ABSENT == [kind |-> "absent", n |-> 0, s |-> <<>>]

UNKNOWN == StrV(<<"u", "n", "k", "n", "o", "w", "n">>)

\* bool(v): 0, "" and None are falsy
Truthy(v) ==
    CASE v.kind = "int" -> v.n # 0
      [] v.kind = "str" -> v.s # <<>>
      [] OTHER -> FALSE

Digits == <<"0", "1", "2", "3", "4", "5", "6", "7", "8", "9">>

RECURSIVE IntToStr(_)
IntToStr(n) ==
    IF n < 10 THEN <<Digits[n + 1]>>
    ELSE IntToStr(n \div 10) \o <<Digits[(n % 10) + 1]>>

\* str(v), as an f-string replacement field renders it
Format(v) ==
    CASE v.kind = "int" -> IntToStr(v.n)
      [] v.kind = "str" -> v.s
      [] OTHER -> <<"N", "o", "n", "e">>

\* the characters str.strip() removes (those the inputs can hold)
IsSpace(ch) == ch \in {" ", "\t", "\n", "\r", "\f"}

RECURSIVE lstrip(_)
lstrip(s) == IF s # <<>> /\ IsSpace(Head(s)) THEN lstrip(Tail(s)) ELSE s

RECURSIVE rstrip(_)
rstrip(s) ==
    IF s # <<>> /\ IsSpace(s[Len(s)]) THEN rstrip(SubSeq(s, 1, Len(s) - 1)) ELSE s

strip(s) == rstrip(lstrip(s))

\* s[:n]
SliceTo(s, n) == SubSeq(s, 1, IF Len(s) < n THEN Len(s) ELSE n)

\* sep.join(parts)
RECURSIVE join(_, _)
join(sep, parts) ==
    IF parts = <<>> THEN <<>>
    ELSE IF Len(parts) = 1 THEN parts[1]
    ELSE parts[1] \o sep \o join(sep, Tail(parts))

\* m.get(key, default)
dict_get(m, key, default) == IF m[key].kind = "absent" THEN default ELSE m[key]

\* mutant: the new entry is put first
dict_set_front(d, key, value) == <<[key |-> key, value |-> value]>> \o d

\* d[key] = value on an insertion-ordered dict
RECURSIVE dict_set(_, _, _)
dict_set(d, key, value) ==
    IF d = <<>> THEN <<[key |-> key, value |-> value]>>
    ELSE IF d[1].key = key THEN <<[key |-> key, value |-> value]>> \o Tail(d)
    ELSE <<d[1]>> \o dict_set(Tail(d), key, value)

-----------------------------------------------------------------------------
(* serialize_chunks, one loop iteration.                                   *)

\* mutant: a present "page" wins, falsy or not
page_num_plain_if_present(doc) ==
    IF doc.metadata["page"].kind # "absent" THEN doc.metadata["page"]
    ELSE dict_get(doc.metadata, "page_number", UNKNOWN)

\* page_num = doc.metadata.get("page") or doc.metadata.get("page_number", "unknown")
page_num_plain(doc) ==
    LET page == dict_get(doc.metadata, "page", NoneV)
    IN  IF Truthy(page) THEN page
        ELSE dict_get(doc.metadata, "page_number", UNKNOWN)

\* f"Chunk {idx} (page={page_num}):"
chunk_header_plain(i, page_num) ==
    <<"C", "h", "u", "n", "k", " ">> \o IntToStr(i)
        \o <<" ", "(", "p", "a", "g", "e", "=">> \o Format(page_num) \o <<")", ":">>

\* mutant: the content is not stripped
chunk_content_plain_raw(doc) == doc.page_content

chunk_content_plain(doc) == strip(doc.page_content)

\* f"{chunk_header}\n{chunk_content}"
block_plain(i, doc) ==
    chunk_header_plain(i, page_num_plain(doc)) \o <<"\n">> \o chunk_content_plain(doc)

-----------------------------------------------------------------------------
(* serialize_chunks_with_ids, one loop iteration.                          *)

\* mutant: enumerate without start=1
chunk_id_zero_based(i) == <<"C">> \o IntToStr(i - 1)

\* f"C{idx}"
chunk_id(i) == <<"C">> \o IntToStr(i)

\* mutant: no fallback to "page_number"
page_num_ids_no_fallback(doc) == dict_get(doc.metadata, "page", UNKNOWN)

page_num_ids(doc) ==
    LET page == dict_get(doc.metadata, "page", NoneV)
    IN  IF Truthy(page) THEN page
        ELSE dict_get(doc.metadata, "page_number", UNKNOWN)

\* mutant: a falsy source falls back to "unknown"
source_ids_or(doc) ==
    LET source == dict_get(doc.metadata, "source", NoneV)
    IN  IF Truthy(source) THEN source ELSE UNKNOWN

source_ids(doc) == dict_get(doc.metadata, "source", UNKNOWN)

chunk_content_ids(doc) == strip(doc.page_content)

\* f"[{chunk_id}] Chunk from page {page_num}:\n{chunk_content}"
block_ids(i, doc) ==
    <<"[">> \o chunk_id(i)
        \o <<"]", " ", "C", "h", "u", "n", "k", " ", "f", "r", "o", "m", " ",
             "p", "a", "g", "e", " ">>
        \o Format(page_num_ids(doc)) \o <<":", "\n">> \o chunk_content_ids(doc)

\* mutant: the ellipsis only marks a cut
snippet_if_cut(chunk_content) ==
    IF Len(chunk_content) > SnippetLen
    THEN SliceTo(chunk_content, SnippetLen) \o <<".", ".", ".">>
    ELSE chunk_content

\* chunk_content[:100] + "..."
snippet(chunk_content) == SliceTo(chunk_content, SnippetLen) \o <<".", ".", ".">>

\* {"page": page_num, "source": source, "snippet": ...}
citation_record(doc) ==
    [page |-> page_num_ids(doc),
     source |-> source_ids(doc),
     snippet |-> snippet(chunk_content_ids(doc))]

-----------------------------------------------------------------------------
(* The calls.  A call is started on the shared list docs, runs its for     *)
(* loop one passage at a time and returns.                                 *)

serialize_chunks_call(c) ==
    /\ pc[c] = "idle"
    /\ pc' = [pc EXCEPT ![c] = "loop"]
    /\ fn' = [fn EXCEPT ![c] = "serialize_chunks"]
    /\ idx' = [idx EXCEPT ![c] = 0]
    /\ context_parts' = [context_parts EXCEPT ![c] = <<>>]
    /\ UNCHANGED <<docs, citations, result>>

\* mutant: a passage whose stripped content is empty is skipped
serialize_chunks_loop_skip_blank(c) ==
    /\ pc[c] = "loop"
    /\ fn[c] = "serialize_chunks"
    /\ idx[c] < Len(docs)
    /\ LET i == idx[c] + 1
       IN  /\ context_parts' =
                [context_parts EXCEPT
                    ![c] = IF chunk_content_plain(docs[i]) = <<>> THEN @
                           ELSE Append(@, block_plain(i, docs[i]))]
           /\ idx' = [idx EXCEPT ![c] = i]
    /\ UNCHANGED <<docs, pc, fn, citations, result>>

\* mutant: context_parts is one list shared by the calls
serialize_chunks_loop_shared(c) ==
    /\ pc[c] = "loop"
    /\ fn[c] = "serialize_chunks"
    /\ idx[c] < Len(docs)
    /\ LET i == idx[c] + 1
       IN  /\ context_parts' =
                [d \in Calls |-> Append(context_parts[d], block_plain(i, docs[i]))]
           /\ idx' = [idx EXCEPT ![c] = i]
    /\ UNCHANGED <<docs, pc, fn, citations, result>>

serialize_chunks_loop(c) ==
    /\ pc[c] = "loop"
    /\ fn[c] = "serialize_chunks"
    /\ idx[c] < Len(docs)
    /\ LET i == idx[c] + 1
       IN  /\ context_parts' =
                [context_parts EXCEPT ![c] = Append(@, block_plain(i, docs[i]))]
           /\ idx' = [idx EXCEPT ![c] = i]
    /\ UNCHANGED <<docs, pc, fn, citations, result>>

serialize_chunks_return(c) ==
    /\ pc[c] = "loop"
    /\ fn[c] = "serialize_chunks"
    /\ idx[c] = Len(docs)
    /\ result' = [result EXCEPT ![c] = join(<<"\n", "\n">>, context_parts[c])]
    /\ pc' = [pc EXCEPT ![c] = "done"]
    /\ UNCHANGED <<docs, fn, idx, context_parts, citations>>

serialize_chunks_with_ids_call(c) ==
    /\ pc[c] = "idle"
    /\ pc' = [pc EXCEPT ![c] = "loop"]
    /\ fn' = [fn EXCEPT ![c] = "serialize_chunks_with_ids"]
    /\ idx' = [idx EXCEPT ![c] = 0]
    /\ context_parts' = [context_parts EXCEPT ![c] = <<>>]
    /\ citations' = [citations EXCEPT ![c] = <<>>]
    /\ UNCHANGED <<docs, result>>

\* mutant: metadata.setdefault("source", "unknown") in place of get
serialize_chunks_with_ids_loop_setdefault(c) ==
    /\ pc[c] = "loop"
    /\ fn[c] = "serialize_chunks_with_ids"
    /\ idx[c] < Len(docs)
    /\ LET i == idx[c] + 1
       IN  /\ context_parts' =
                [context_parts EXCEPT ![c] = Append(@, block_ids(i, docs[i]))]
           /\ citations' =
                [citations EXCEPT
                    ![c] = dict_set(@, chunk_id(i), citation_record(docs[i]))]
           /\ docs' = [docs EXCEPT ![i].metadata["source"] = source_ids(docs[i])]
           /\ idx' = [idx EXCEPT ![c] = i]
    /\ UNCHANGED <<pc, fn, result>>

serialize_chunks_with_ids_loop(c) ==
    /\ pc[c] = "loop"
    /\ fn[c] = "serialize_chunks_with_ids"
    /\ idx[c] < Len(docs)
    /\ LET i == idx[c] + 1
       IN  /\ context_parts' =
                [context_parts EXCEPT ![c] = Append(@, block_ids(i, docs[i]))]
           /\ citations' =
                [citations EXCEPT
                    ![c] = dict_set(@, chunk_id(i), citation_record(docs[i]))]
           /\ idx' = [idx EXCEPT ![c] = i]
    /\ UNCHANGED <<docs, pc, fn, result>>

serialize_chunks_with_ids_return(c) ==
    /\ pc[c] = "loop"
    /\ fn[c] = "serialize_chunks_with_ids"
    /\ idx[c] = Len(docs)
    /\ result' =
         [result EXCEPT
            ![c] = <<join(<<"\n", "\n">>, context_parts[c]), citations[c]>>]
    /\ pc' = [pc EXCEPT ![c] = "done"]
    /\ UNCHANGED <<docs, fn, idx, context_parts, citations>>

-----------------------------------------------------------------------------
(* Inputs.                                                                 *)

Chars == {"a", " ", "\n"}

Strs(alphabet, n) == UNION {[1..k -> alphabet] : k \in 0..n}

Fill(n) == [i \in 1..n |-> "a"]

\* contents around the snippet length, with leading whitespace
LongContents ==
    {lead \o Fill(n) : lead \in Strs({" ", "\n"}, MaxPad),
                       n \in (SnippetLen - MaxOver)..(SnippetLen + MaxOver)}

PageValues == {ABSENT, IntV(0), StrV(<<>>), IntV(5)}
PageNumberValues == {ABSENT, IntV(0), IntV(12)}
SourceValues == {ABSENT, StrV(<<>>), StrV(<<"d">>)}

Metas ==
    {[page |-> p, page_number |-> q, source |-> s] :
        p \in PageValues, q \in PageNumberValues, s \in SourceValues}

Document(content, meta) == [page_content |-> content, metadata |-> meta]

\* one passage, every short or long content with every attribute mapping
SingleDocInputs ==
    {<<Document(t, m)>> : t \in Strs(Chars, MaxLen) \cup LongContents, m \in Metas}

SeqContents == {<<>>, <<" ", "a", "\n">>, <<"a", "\n", "\n", "a">>}

SeqMetas ==
    {[page |-> ABSENT, page_number |-> ABSENT, source |-> ABSENT],
     [page |-> IntV(5), page_number |-> ABSENT, source |-> StrV(<<"d">>)],
     [page |-> IntV(0), page_number |-> IntV(12), source |-> ABSENT]}

SeqDocs == {Document(t, m) : t \in SeqContents, m \in SeqMetas}

\* up to MaxDocs passages (equal passages included)
SeqInputs == UNION {[1..k -> SeqDocs] : k \in 0..MaxDocs}

ConcDocs ==
    {Document(<<" ", "a", "\n">>,
              [page |-> ABSENT, page_number |-> ABSENT, source |-> ABSENT]),
     Document(<<"a", "\n", "a">>,
              [page |-> IntV(5), page_number |-> ABSENT, source |-> StrV(<<"d">>)]),
     Document(<<>>,
              [page |-> IntV(0), page_number |-> IntV(12), source |-> StrV(<<>>)])}

ConcInputs == UNION {[1..k -> ConcDocs] : k \in 0..MaxDocs}

InitCalls(ids) ==
    /\ pc = [c \in ids |-> "idle"]
    /\ fn = [c \in ids |-> "none"]
    /\ idx = [c \in ids |-> 0]
    /\ context_parts = [c \in ids |-> <<>>]
    /\ citations = [c \in ids |-> <<>>]
    /\ result = [c \in ids |-> <<>>]

\* one call on any input
Init ==
    /\ docs \in SingleDocInputs \cup SeqInputs
    /\ InitCalls({1})

\* NumCalls calls on one shared input
InitConc ==
    /\ docs \in ConcInputs
    /\ InitCalls(1..NumCalls)

Next ==
    \/ \E c \in Calls : serialize_chunks_call(c)
    \/ \E c \in Calls : serialize_chunks_loop(c)
    \/ \E c \in Calls : serialize_chunks_return(c)
    \/ \E c \in Calls : serialize_chunks_with_ids_call(c)
    \/ \E c \in Calls : serialize_chunks_with_ids_loop(c)
    \/ \E c \in Calls : serialize_chunks_with_ids_return(c)

Spec == Init /\ [][Next]_vars

SpecConc == InitConc /\ [][Next]_vars

-----------------------------------------------------------------------------
(* The two functions as a whole, on a list ds: what one call returns when  *)
(* it runs alone.                                                          *)

RECURSIVE citations_upto(_, _)
citations_upto(ds, k) ==
    IF k = 0 THEN <<>>
    ELSE dict_set(citations_upto(ds, k - 1), chunk_id(k), citation_record(ds[k]))

serialize_chunks(ds) ==
    join(<<"\n", "\n">>, [i \in 1..Len(ds) |-> block_plain(i, ds[i])])

serialize_chunks_with_ids(ds) ==
    <<join(<<"\n", "\n">>, [i \in 1..Len(ds) |-> block_ids(i, ds[i])]),
      citations_upto(ds, Len(ds))>>

-----------------------------------------------------------------------------
(* Vocabulary of the properties, stated without the operators above.       *)

PlainDone(c) == pc[c] = "done" /\ fn[c] = "serialize_chunks"
IdsDone(c) == pc[c] = "done" /\ fn[c] = "serialize_chunks_with_ids"
IdsRunning(c) == pc[c] \in {"loop", "done"} /\ fn[c] = "serialize_chunks_with_ids"
PlainRunning(c) == pc[c] \in {"loop", "done"} /\ fn[c] = "serialize_chunks"

\* the context string a finished call returned
ContextOf(c) == IF fn[c] = "serialize_chunks" THEN result[c] ELSE result[c][1]

Whitespace == {" ", "\t", "\n", "\r", "\f"}

\* s without its leading and trailing whitespace: the slice from the first to
\* the last character that is not whitespace
Trimmed(s) ==
    LET keep == {i \in 1..Len(s) : s[i] \notin Whitespace}
    IN  IF keep = {} THEN <<>>
        ELSE SubSeq(s, CHOOSE i \in keep : \A j \in keep : i <= j,
                       CHOOSE i \in keep : \A j \in keep : i >= j)

LitUnknown == [kind |-> "str", n |-> 0, s |-> <<"u", "n", "k", "n", "o", "w", "n">>]

IsPresent(m, key) == m[key].kind # "absent"

IsFalsy(v) == (v.kind = "int" /\ v.n = 0) \/ (v.kind = "str" /\ Len(v.s) = 0)

\* the resolved page of an attribute mapping
ResolvedPage(m) ==
    IF IsPresent(m, "page") /\ ~IsFalsy(m.page) THEN m.page
    ELSE IF IsPresent(m, "page_number") THEN m.page_number
    ELSE LitUnknown

PlainHeader(i, p) ==
    <<"C", "h", "u", "n", "k", " ">> \o IntToStr(i) \o <<" ", "(", "p", "a", "g", "e", "=">>
        \o Format(p) \o <<")", ":">>

IdsHeader(i, p) ==
    <<"[", "C">> \o IntToStr(i) \o <<"]", " ", "C", "h", "u", "n", "k", " ",
        "f", "r", "o", "m", " ", "p", "a", "g", "e", " ">> \o Format(p) \o <<":">>

PlainBlock(i, doc) ==
    PlainHeader(i, ResolvedPage(doc.metadata)) \o <<"\n">> \o Trimmed(doc.page_content)

IdsBlock(i, doc) ==
    IdsHeader(i, ResolvedPage(doc.metadata)) \o <<"\n">> \o Trimmed(doc.page_content)

\* blocks b_1 .. b_n with a double newline between consecutive ones
RECURSIVE Joined(_)
Joined(blocks) ==
    LET n == Len(blocks)
    IN  IF n = 0 THEN <<>>
        ELSE IF n = 1 THEN blocks[1]
        ELSE Joined(SubSeq(blocks, 1, n - 1)) \o <<"\n", "\n">> \o blocks[n]

IsPrefix(p, s) == Len(p) <= Len(s) /\ SubSeq(s, 1, Len(p)) = p

Drop(s, n) == SubSeq(s, n + 1, Len(s))

-----------------------------------------------------------------------------
\* C1: serialize_chunks returns the blocks b_1..b_N joined by a double newline,
\* b_i being the header "Chunk <i> (page=<p_i>):", one newline, and the content
\* of the i-th passage with only its leading and trailing whitespace removed
\* (a header followed by the body; the body keeps its internal newlines).
C1_PlainFormat ==
    \A c \in Calls :
        PlainDone(c) =>
            result[c] = Joined([i \in 1..Len(docs) |-> PlainBlock(i, docs[i])])

\* a finished serialize_chunks call on two passages, the first with leading and
\* trailing whitespace, the second with internal newlines
C1_Witness ==
    \E c \in Calls :
        /\ PlainDone(c)
        /\ Len(docs) = 2
        /\ docs[1].page_content = <<" ", "a", "\n">>
        /\ docs[2].page_content = <<"a", "\n", "\n", "a">>

\* C2: the context of serialize_chunks_with_ids is the blocks joined by a double
\* newline, block i being "[C<i>] Chunk from page <p_i>:", one newline and the
\* trimmed content; the body and the page are those serialize_chunks computes
\* for the same passage.
C2_IdsFormat ==
    \A c \in Calls :
        IdsDone(c) =>
            /\ result[c][1] = Joined([i \in 1..Len(docs) |-> IdsBlock(i, docs[i])])
            /\ \A i \in 1..Len(docs) :
                 LET p == page_num_plain(docs[i])
                     plain == block_plain(i, docs[i])
                     body == Drop(plain, Len(chunk_header_plain(i, p)) + 1)
                 IN  context_parts[c][i] = IdsHeader(i, p) \o <<"\n">> \o body

\* a finished serialize_chunks_with_ids call on two passages, one whose page is
\* falsy with a page_number, one with whitespace around its content
C2_Witness ==
    \E c \in Calls :
        /\ IdsDone(c)
        /\ Len(docs) = 2
        /\ docs[1].metadata.page = IntV(0)
        /\ docs[1].metadata.page_number = IntV(12)
        /\ docs[2].page_content = <<" ", "a", "\n">>

-----------------------------------------------------------------------------
(* Blocks of an output string.                                             *)

\* the parts of s separated by the blank-line separator, cut at the leftmost
\* double newline first
RECURSIVE SplitBlank(_)
SplitBlank(s) ==
    LET at == {k \in 1..(Len(s) - 1) : s[k] = "\n" /\ s[k + 1] = "\n"}
    IN  IF at = {} THEN <<s>>
        ELSE LET k == CHOOSE i \in at : \A j \in at : i <= j
             IN  <<SubSeq(s, 1, k - 1)>> \o SplitBlank(SubSeq(s, k + 2, Len(s)))

HasBlankLine(s) == \E k \in 1..(Len(s) - 1) : s[k] = "\n" /\ s[k + 1] = "\n"

\* the block of the i-th passage, as the function of call c formats it
BlockOf(c, i) ==
    IF fn[c] = "serialize_chunks" THEN PlainBlock(i, docs[i]) ELSE IdsBlock(i, docs[i])

\* where block i starts in the output: after the blocks before it and their
\* separators
RECURSIVE Offset(_, _)
Offset(c, i) == IF i = 1 THEN 0 ELSE Offset(c, i - 1) + Len(BlockOf(c, i - 1)) + 2

\* the blocks can be told apart by their separator: none holds a blank line,
\* none ends with a newline (an empty trimmed content)
Separable(c) ==
    \A i \in 1..Len(docs) :
        /\ ~HasBlankLine(BlockOf(c, i))
        /\ Trimmed(docs[i].page_content) # <<>>

-----------------------------------------------------------------------------
(* Citation records.                                                       *)

\* the first n characters of s, all of s when it is shorter
FirstChars(s, n) == [j \in 1..(IF Len(s) <= n THEN Len(s) ELSE n) |-> s[j]]

Ellipsis == <<".", ".", ".">>

ResolvedSource(m) == IF IsPresent(m, "source") THEN m.source ELSE LitUnknown

\* the record of one passage, built from that passage alone
RecordOf(doc) ==
    [page |-> ResolvedPage(doc.metadata),
     source |-> ResolvedSource(doc.metadata),
     snippet |-> FirstChars(Trimmed(doc.page_content), 100) \o Ellipsis]

CitationKey(i) == <<"C">> \o IntToStr(i)

\* C4: after k passages the list of blocks and the citation table both hold k
\* entries; the table's keys are C1..Ck in insertion order, pairwise distinct,
\* and the record under C<i> is built from the i-th passage; the returned table
\* has exactly N entries, equal passages included.
C4_CitationTable ==
    \A c \in Calls :
        /\ IdsRunning(c) =>
             /\ Len(context_parts[c]) = idx[c]
             /\ Len(citations[c]) = idx[c]
             /\ \A i \in 1..idx[c] :
                  /\ citations[c][i].key = CitationKey(i)
                  /\ citations[c][i].value = RecordOf(docs[i])
             /\ \A i, j \in 1..Len(citations[c]) :
                  i # j => citations[c][i].key # citations[c][j].key
        /\ IdsDone(c) =>
             /\ idx[c] = Len(docs)
             /\ result[c][2] = citations[c]
             /\ Len(result[c][2]) = Len(docs)

\* a finished citation-mode call on two passages equal in content and attributes
C4_Witness ==
    \E c \in Calls :
        /\ IdsDone(c)
        /\ Len(docs) = 2
        /\ docs[1] = docs[2]

\* C5: the page is the value under "page" when that is present and truthy,
\* else the value under "page_number" when that key is present, else "unknown";
\* both serializers show it in the header of block i, and in citation mode the
\* record C<i> stores the value the header shows.
C5_PageResolution ==
    \A c \in Calls :
        \A i \in 1..idx[c] :
            LET p == ResolvedPage(docs[i].metadata)
            IN  /\ PlainRunning(c) =>
                     IsPrefix(PlainHeader(i, p) \o <<"\n">>, context_parts[c][i])
                /\ IdsRunning(c) =>
                     /\ citations[c][i].value.page = p
                     /\ IsPrefix(IdsHeader(i, citations[c][i].value.page) \o <<"\n">>,
                                 context_parts[c][i])

\* a finished plain call on a passage with a falsy page and a page_number
C5_Witness ==
    \E c \in Calls :
        /\ PlainDone(c)
        /\ Len(docs) = 1
        /\ docs[1].metadata.page = IntV(0)
        /\ docs[1].metadata.page_number = IntV(12)

\* C6: the snippet is the first 100 characters of the trimmed content (all of
\* it when shorter, the empty one included) followed by "...": at most 103
\* characters, ending with "...", cut after trimming.
C6_Snippet ==
    \A c \in Calls :
        IdsRunning(c) =>
            \A i \in 1..idx[c] :
                LET t == Trimmed(docs[i].page_content)
                    sn == citations[c][i].value.snippet
                IN  /\ sn = FirstChars(t, 100) \o Ellipsis
                    /\ Len(sn) <= 103
                    /\ Len(sn) >= 3
                    /\ SubSeq(sn, Len(sn) - 2, Len(sn)) = Ellipsis
                    /\ Len(t) <= 100 => sn = t \o Ellipsis

\* a finished citation-mode call on a content that starts with whitespace and
\* is longer than 100 characters once trimmed
C6_Witness ==
    \E c \in Calls :
        /\ IdsDone(c)
        /\ Len(docs) = 1
        /\ Len(Trimmed(docs[1].page_content)) > 100
        /\ docs[1].page_content[1] \in Whitespace

\* C7: the source of the record is the value under "source" when the key is
\* present, a falsy value included, and "unknown" when the key is absent.
C7_Source ==
    \A c \in Calls :
        IdsRunning(c) =>
            \A i \in 1..idx[c] :
                LET m == docs[i].metadata
                    src == citations[c][i].value.source
                IN  /\ IsPresent(m, "source") => src = m.source
                    /\ ~IsPresent(m, "source") => src = LitUnknown

\* a finished citation-mode call on a passage whose source is the empty string
C7_Witness ==
    \E c \in Calls :
        /\ IdsDone(c)
        /\ Len(docs) = 1
        /\ docs[1].metadata.source = StrV(<<>>)

\* C8: on the empty sequence serialize_chunks returns "" and
\* serialize_chunks_with_ids returns ("", {}); on a non-empty sequence the
\* returned string and the citation table are non-empty.
C8_EmptyInput ==
    \A c \in Calls :
        /\ PlainDone(c) => (docs = <<>> <=> result[c] = <<>>)
        /\ IdsDone(c) =>
             /\ docs = <<>> => result[c] = << <<>>, <<>> >>
             /\ docs # <<>> => (result[c][1] # <<>> /\ result[c][2] # <<>>)

\* a finished citation-mode call on the empty sequence
C8_Witness == \E c \in Calls : IdsDone(c) /\ docs = <<>>

-----------------------------------------------------------------------------
(* Frame and concurrent calls.                                             *)

\* call d takes no part in the step
Untouched(d) == pc'[d] = pc[d] /\ idx'[d] = idx[d]

\* C9: no step of either function changes the passage sequence (length, order,
\* untrimmed contents, attribute mappings with their keys); a call starts from
\* an empty list and an empty table of its own and a step writes only the list,
\* table and result of the call that takes it.
C9_InputsUnchanged ==
    /\ [][docs' = docs]_vars
    /\ [][\A d \in Calls :
            Untouched(d) =>
                /\ context_parts'[d] = context_parts[d]
                /\ citations'[d] = citations[d]
                /\ result'[d] = result[d]]_vars
    /\ [](\A c \in Calls :
            (pc[c] = "loop" /\ idx[c] = 0) =>
                (context_parts[c] = <<>> /\ citations[c] = <<>>))

\* both functions have finished on two passages, one with whitespace around
\* its content and without any attribute
C9_Witness ==
    /\ Cardinality(Calls) > 1
    /\ PlainDone(1)
    /\ IdsDone(2)
    /\ Len(docs) = 2
    /\ docs[1].page_content = <<" ", "a", "\n">>
    /\ ~IsPresent(docs[1].metadata, "source")

\* C10: with calls interleaved over the shared passages, each call holds at
\* every iteration what it holds when run alone, and returns what it returns
\* when run alone.
C10_Concurrent ==
    \A c \in Calls :
        /\ PlainRunning(c) =>
             context_parts[c] = [i \in 1..idx[c] |-> block_plain(i, docs[i])]
        /\ IdsRunning(c) =>
             /\ context_parts[c] = [i \in 1..idx[c] |-> block_ids(i, docs[i])]
             /\ citations[c] = citations_upto(docs, idx[c])
        /\ PlainDone(c) => result[c] = serialize_chunks(docs)
        /\ IdsDone(c) => result[c] = serialize_chunks_with_ids(docs)

\* two calls are both in the middle of their loops over the same two passages
C10_Witness ==
    /\ Cardinality(Calls) > 1
    /\ Len(docs) = 2
    /\ pc[1] = "loop" /\ idx[1] = 1
    /\ pc[2] = "loop" /\ idx[2] = 1

====
